---- MODULE Spec2Model ----
(***************************************************************************)
(* Model of the signum front-end pages: RunsPage (row filter), HomePage    *)
(* (live JSON validation) and PreviewPage (heading-only markdown renderer  *)
(* and the mermaid mount handler).                                         *)
(*                                                                         *)
(* A JavaScript string is a sequence of one-character strings, so that     *)
(* toLowerCase, includes, JSON.stringify, JSON.parse and the regular       *)
(* expression replacements are computed character by character.            *)
(***************************************************************************)
EXTENDS Naturals, Sequences, FiniteSets, TLC

VARIABLES
    rows,        \* RunsPage: const rows = ref([...])
    filter,      \* RunsPage: const filter = ref('')
    filtered,    \* RunsPage: computed(filtered), the value the table shows
    raw,         \* HomePage: const raw = ref('{...}')
    errorMsg,    \* HomePage: const errorMsg = ref('')
    parsed,      \* HomePage: computed(parsed)
    md,          \* PreviewPage: const md = ref('# Título...')
    renderedMd,  \* PreviewPage: computed(renderedMd), NotComputed until read
    tab,         \* PreviewPage: const tab = ref('docs')
    mermaid,     \* PreviewPage: window.mermaid, "absent" or "present"
    umlEl,       \* PreviewPage: umlEl.value, NoElement or [kind, content]
    ganttEl,     \* PreviewPage: ganttEl.value, NoElement or [kind, content]
    pc,          \* PreviewPage: position of the onMounted handler
    call,        \* PreviewPage: what mermaid.initialize / mermaid.render did
    escaped      \* PreviewPage: an exception left the onMounted handler

runsVars == <<rows, filter, filtered>>
homeVars == <<raw, errorMsg, parsed>>
previewVars == <<md, renderedMd, tab, mermaid, umlEl, ganttEl, pc, call, escaped>>
vars == <<rows, filter, filtered, raw, errorMsg, parsed,
          md, renderedMd, tab, mermaid, umlEl, ganttEl, pc, call, escaped>>

(***************************************************************************)
(* Bounds of the model.                                                    *)
(***************************************************************************)
MaxRows == 1
MaxQueryLen == 4
MaxRawLen == 4
MaxMdLen == 5

\* All sequences over S of length at most n.
SeqsUpTo(S, n) == UNION {[1..k -> S] : k \in 0..n}

Range(s) == {s[i] : i \in DOMAIN s}

\* The least element of a non-empty set of numbers.
Min(S) == CHOOSE x \in S : \A y \in S : x <= y

(***************************************************************************)
(* String.prototype.toLowerCase, on the letters the model uses.            *)
(***************************************************************************)
UpperLetters ==
    <<"A", "B", "C", "D", "E", "F", "G", "H", "I", "J", "K", "L", "M",
      "N", "O", "P", "Q", "R", "S", "T", "U", "V", "W", "X", "Y", "Z">>
LowerLetters ==
    <<"a", "b", "c", "d", "e", "f", "g", "h", "i", "j", "k", "l", "m",
      "n", "o", "p", "q", "r", "s", "t", "u", "v", "w", "x", "y", "z">>

LowerOf ==
    [c \in Range(UpperLetters) |->
        LowerLetters[CHOOSE i \in DOMAIN UpperLetters : UpperLetters[i] = c]]

LowerChar(c) == IF c \in DOMAIN LowerOf THEN LowerOf[c] ELSE c

ToLowerCase(s) == [i \in DOMAIN s |-> LowerChar(s[i])]

(***************************************************************************)
(* String.prototype.includes(needle): the first position from 1 at which   *)
(* needle occurs in hay, scanned left to right; 0 when there is none.      *)
(***************************************************************************)
MatchesAt(hay, needle, i) ==
    /\ i + Len(needle) - 1 <= Len(hay)
    /\ \A j \in 1..Len(needle) : hay[i + j - 1] = needle[j]

IndexOf(hay, needle) ==
    LET at == {i \in 1..(Len(hay) + 1) : MatchesAt(hay, needle, i)}
    IN  IF at = {} THEN 0 ELSE Min(at)

\* The test indexOf(needle) > 0 in place of includes: a match at the start
\* of the text counts as none.
IncludesAfterStart(hay, needle) == IndexOf(hay, needle) > 1
Includes(hay, needle) == IndexOf(hay, needle) # 0

(***************************************************************************)
(* JSON.stringify of a string and of a row object {id, name, status}.      *)
(***************************************************************************)
RECURSIVE EscapeJson(_)
EscapeJson(s) ==
    IF s = <<>> THEN <<>>
    ELSE LET c == Head(s)
             e == CASE c = "\"" -> <<"\\", "\"">>
                    [] c = "\\" -> <<"\\", "\\">>
                    [] c = "\n" -> <<"\\", "n">>
                    [] c = "\r" -> <<"\\", "r">>
                    [] OTHER    -> <<c>>
         IN  e \o EscapeJson(Tail(s))

QuoteJson(s) == <<"\"">> \o EscapeJson(s) \o <<"\"">>

KeyId == <<"i", "d">>
KeyName == <<"n", "a", "m", "e">>
KeyStatus == <<"s", "t", "a", "t", "u", "s">>

StringifyRow(r) ==
    <<"{">> \o QuoteJson(KeyId) \o <<":">> \o QuoteJson(r.id)
    \o <<",">> \o QuoteJson(KeyName) \o <<":">> \o QuoteJson(r.name)
    \o <<",">> \o QuoteJson(KeyStatus) \o <<":">> \o QuoteJson(r.status)
    \o <<"}">>

(***************************************************************************)
(* RunsPage.                                                               *)
(***************************************************************************)
RowA1 == [id |-> <<"a", "1">>, name |-> <<"A", "l", "p", "h", "a">>,
          status |-> <<"P", "A", "S", "S", "E", "D">>]
RowB2 == [id |-> <<"b", "2">>, name |-> <<"B", "e", "t", "a">>,
          status |-> <<"F", "A", "I", "L", "E", "D">>]
RowC3 == [id |-> <<"c", "3">>, name |-> <<"G", "a", "m", "m", "a">>,
          status |-> <<"R", "U", "N", "N", "I", "N", "G">>]

\* const rows = ref([...])
FixtureRows == <<RowA1, RowB2, RowC3>>

\* A row outside the fixture, whose name needs escaping when serialized.
RowD4 == [id |-> <<"d", "4">>, name |-> <<"F", "\"", "a", "i">>,
          status |-> <<"l", "a", "i", "f">>]

Records == {RowA1, RowB2, RowC3, RowD4}
\* The fixture, the two-row scenario and a sequence with a repeated row.
ScenarioRows == {FixtureRows, <<RowA1, RowB2>>, <<RowD4, RowB2, RowD4>>}
RowSeqs == SeqsUpTo(Records, MaxRows) \cup ScenarioRows

\* The characters typed into the search box.
QueryChars == {"f", "a", "i", "l", "I"}

\* JSON.stringify(r).toLowerCase(), for each row of the model.
RowText == [r \in Records |-> ToLowerCase(StringifyRow(r))]

\* (r) => JSON.stringify(r).toLowerCase().includes(q)
RowMatches(r, q) == Includes(RowText[r], q)

\* Array.prototype.filter: the elements that satisfy the test, in order.
RECURSIVE ArrayFilter(_, _)
ArrayFilter(rs, q) ==
    IF rs = <<>> THEN <<>>
    ELSE IF RowMatches(Head(rs), q)
         THEN <<Head(rs)>> \o ArrayFilter(Tail(rs), q)
         ELSE ArrayFilter(Tail(rs), q)

\* The filter without toLowerCase() on the query.
FilteredOfNoFold(rs, f) == ArrayFilter(rs, f)
\* The filter with a loop that starts at the second row.
FilteredOfSkipFirst(rs, f) ==
    ArrayFilter(IF rs = <<>> THEN rs ELSE Tail(rs), ToLowerCase(f))
\* const filtered = computed(() => { const q = ...; return rows.value.filter(...) })
FilteredOf(rs, f) == ArrayFilter(rs, ToLowerCase(f))

\* The contents a text box can take after one edit of text t: one character
\* typed at the end, the last character deleted, or the box cleared.
Edits(t, chars, maxLen) ==
    {Append(t, c) : c \in IF Len(t) < maxLen THEN chars ELSE {}}
    \cup (IF t = <<>> THEN {} ELSE {SubSeq(t, 1, Len(t) - 1), <<>>})

\* The filter applied in place: rows.value = rows.value.filter(...).
SetFilterInPlace(q) ==
    /\ filter' = q
    /\ filtered' = FilteredOf(rows, q)
    /\ rows' = FilteredOf(rows, q)
    /\ UNCHANGED homeVars
    /\ UNCHANGED previewVars

\* v-model="filter": the search box writes its content to filter, and the
\* computed filtered is re-evaluated for the table.
SetFilter(q) ==
    /\ filter' = q
    /\ filtered' = FilteredOf(rows, q)
    /\ UNCHANGED <<rows>>
    /\ UNCHANGED homeVars
    /\ UNCHANGED previewVars

(***************************************************************************)
(* JSON.parse.  A JSON value is [t |-> type, v |-> content]; a SyntaxError *)
(* is a result with ok = FALSE.  Every parsing operator takes the text s   *)
(* and a position i and returns [ok, val, pos], pos being the position     *)
(* after what it read.                                                     *)
(***************************************************************************)
JNull == [t |-> "null", v |-> <<>>]
JBool(b) == [t |-> "bool", v |-> <<b>>]
JNum(lexeme) == [t |-> "num", v |-> lexeme]
JStr(chars) == [t |-> "str", v |-> chars]
JArr(elems) == [t |-> "arr", v |-> elems]
JObj(members) == [t |-> "obj", v |-> members]

SyntaxError == [ok |-> FALSE, val |-> JNull, pos |-> 0]
Parsed(v, p) == [ok |-> TRUE, val |-> v, pos |-> p]

JsonWhitespace == {" ", "\t", "\n", "\r"}
JsonControl == {"\t", "\n", "\r", "\f"}
Digits == {"0", "1", "2", "3", "4", "5", "6", "7", "8", "9"}
HexDigits == Digits \cup {"a", "b", "c", "d", "e", "f", "A", "B", "C", "D", "E", "F"}

CharAt(s, i) == IF i \in DOMAIN s THEN s[i] ELSE "EOF"

RECURSIVE SkipWs(_, _)
SkipWs(s, i) ==
    IF CharAt(s, i) \in JsonWhitespace THEN SkipWs(s, i + 1) ELSE i

\* The literals null, true and false.
ParseLiteral(s, i, word, value) ==
    IF MatchesAt(s, word, i) THEN Parsed(value, i + Len(word)) ELSE SyntaxError

RECURSIVE SkipDigits(_, _)
SkipDigits(s, i) ==
    IF CharAt(s, i) \in Digits THEN SkipDigits(s, i + 1) ELSE i

\* number: -? (0 | [1-9][0-9]*) (. [0-9]+)? ([eE] [+-]? [0-9]+)?
ParseNumber(s, i) ==
    LET i1 == IF CharAt(s, i) = "-" THEN i + 1 ELSE i
        i2 == IF CharAt(s, i1) = "0" THEN i1 + 1 ELSE SkipDigits(s, i1)
        f1 == SkipDigits(s, i2 + 1)
        fracBad == CharAt(s, i2) = "." /\ f1 = i2 + 1
        i3 == IF CharAt(s, i2) = "." THEN f1 ELSE i2
        e1 == IF CharAt(s, i3 + 1) \in {"+", "-"} THEN i3 + 2 ELSE i3 + 1
        e2 == SkipDigits(s, e1)
        hasExp == CharAt(s, i3) \in {"e", "E"}
        expBad == hasExp /\ e2 = e1
        i4 == IF hasExp THEN e2 ELSE i3
    IN  IF i2 = i1 \/ fracBad \/ expBad THEN SyntaxError
        ELSE Parsed(JNum(SubSeq(s, i, i4 - 1)), i4)

\* The characters of a string after its opening quote, up to the closing one.
\* An escape \uXXXX is kept as its six characters.
RECURSIVE ParseChars(_, _, _)
ParseChars(s, i, acc) ==
    LET c == CharAt(s, i)
        d == CharAt(s, i + 1)
    IN  CASE c = "EOF" -> SyntaxError
          [] c = "\"" -> Parsed(JStr(acc), i + 1)
          [] c \in JsonControl -> SyntaxError
          [] c = "\\" ->
               CASE d \in {"\"", "\\", "/"} -> ParseChars(s, i + 2, Append(acc, d))
                 [] d = "n" -> ParseChars(s, i + 2, Append(acc, "\n"))
                 [] d = "r" -> ParseChars(s, i + 2, Append(acc, "\r"))
                 [] d = "t" -> ParseChars(s, i + 2, Append(acc, "\t"))
                 [] d = "f" -> ParseChars(s, i + 2, Append(acc, "\f"))
                 [] d = "b" -> ParseChars(s, i + 2, Append(acc, "\\b"))
                 [] d = "u" ->
                      IF \A k \in 2..5 : CharAt(s, i + k) \in HexDigits
                      THEN ParseChars(s, i + 6, acc \o SubSeq(s, i, i + 5))
                      ELSE SyntaxError
                 [] OTHER -> SyntaxError
          [] OTHER -> ParseChars(s, i + 1, Append(acc, c))

ParseString(s, i) ==
    IF CharAt(s, i) = "\"" THEN ParseChars(s, i + 1, <<>>) ELSE SyntaxError

RECURSIVE ParseValue(_, _)
RECURSIVE ParseElements(_, _, _)
RECURSIVE ParseMembers(_, _, _)

\* One element of an array at i, then "," and the rest, or "]".
ParseElements(s, i, acc) ==
    LET e == ParseValue(s, i)
        j == SkipWs(s, e.pos)
    IN  IF ~e.ok THEN SyntaxError
        ELSE CASE CharAt(s, j) = "]" -> Parsed(JArr(Append(acc, e.val)), j + 1)
               [] CharAt(s, j) = "," ->
                    ParseElements(s, SkipWs(s, j + 1), Append(acc, e.val))
               [] OTHER -> SyntaxError

\* One member "key": value of an object at i, then "," and the rest, or "}".
ParseMembers(s, i, acc) ==
    LET k == ParseString(s, i)
        c == SkipWs(s, k.pos)
        e == ParseValue(s, SkipWs(s, c + 1))
        j == SkipWs(s, e.pos)
    IN  IF ~k.ok \/ CharAt(s, c) # ":" THEN SyntaxError
        ELSE IF ~e.ok THEN SyntaxError
        ELSE CASE CharAt(s, j) = "}" ->
                    Parsed(JObj(Append(acc, <<k.val, e.val>>)), j + 1)
               [] CharAt(s, j) = "," ->
                    ParseMembers(s, SkipWs(s, j + 1), Append(acc, <<k.val, e.val>>))
               [] OTHER -> SyntaxError

ParseValue(s, i) ==
    LET c == CharAt(s, i)
    IN  CASE c = "n" -> ParseLiteral(s, i, <<"n", "u", "l", "l">>, JNull)
          [] c = "t" -> ParseLiteral(s, i, <<"t", "r", "u", "e">>, JBool(TRUE))
          [] c = "f" -> ParseLiteral(s, i, <<"f", "a", "l", "s", "e">>, JBool(FALSE))
          [] c = "\"" -> ParseString(s, i)
          [] c = "-" \/ c \in Digits -> ParseNumber(s, i)
          [] c = "[" ->
               IF CharAt(s, SkipWs(s, i + 1)) = "]"
               THEN Parsed(JArr(<<>>), SkipWs(s, i + 1) + 1)
               ELSE ParseElements(s, SkipWs(s, i + 1), <<>>)
          [] c = "{" ->
               IF CharAt(s, SkipWs(s, i + 1)) = "}"
               THEN Parsed(JObj(<<>>), SkipWs(s, i + 1) + 1)
               ELSE ParseMembers(s, SkipWs(s, i + 1), <<>>)
          [] OTHER -> SyntaxError

\* JSON.parse(text): one value between optional whitespace, and nothing more.
JSONParse(text) ==
    LET r == ParseValue(text, SkipWs(text, 1))
    IN  IF r.ok /\ SkipWs(text, r.pos) = Len(text) + 1 THEN r ELSE SyntaxError

(***************************************************************************)
(* HomePage.                                                               *)
(***************************************************************************)
\* const raw = ref('{\n  "id": "demo",\n  "name": "Demo",\n  "goals": ["Mejorar DX"]\n}')
InitialRaw ==
    <<"{", "\n", " ", " ", "\"", "i", "d", "\"", ":", " ", "\"", "d", "e", "m",
      "o", "\"", ",", "\n", " ", " ", "\"", "n", "a", "m", "e", "\"", ":", " ",
      "\"", "D", "e", "m", "o", "\"", ",", "\n", " ", " ", "\"", "g", "o", "a",
      "l", "s", "\"", ":", " ", "[", "\"", "M", "e", "j", "o", "r", "a", "r",
      " ", "D", "X", "\"", "]", "\n", "}">>

NoError == ""
InvalidJson == "JSON inválido"

\* The characters typed into the editor.
RawChars == {"n", "u", "l", "[", "]", "1", ",", " "}

\* const parsed = computed(() => { try { return JSON.parse(raw.value) } catch { return null } })
ParsedOf(text) ==
    LET r == JSONParse(text) IN IF r.ok THEN r.val ELSE JNull

\* const isValid = computed(() => parsed.value !== null)
isValid == parsed # JNull

\* The callback of watch(raw, (val) => {...}).
WatchRaw(val) ==
    IF JSONParse(val).ok THEN NoError ELSE InvalidJson

\* v-model="raw": the editor writes its content to raw; the watcher runs when
\* the value changed (it is flushed before the page renders again), and the
\* computed parsed is re-evaluated for the badges.
SetRaw(val) ==
    /\ raw' = val
    /\ errorMsg' = IF val # raw THEN WatchRaw(val) ELSE errorMsg
    /\ parsed' = ParsedOf(val)
    /\ UNCHANGED runsVars
    /\ UNCHANGED previewVars

(***************************************************************************)
(* PreviewPage: the regular expressions of renderedMd.                     *)
(***************************************************************************)
\* LineTerminator of the regular expression grammar (U+2028 and U+2029 are
\* not among the characters of the model).
LineTerminators == {"\n", "\r"}

\* ^ under the m flag: at the start of the input or after a line terminator.
AtLineStartNoM(s, i) == i = 1
AtLineStart(s, i) == i = 1 \/ s[i - 1] \in LineTerminators

\* $ without the m flag: at the end of the input only.
AtLineEndNoM(s, i) == i = Len(s) + 1
\* A pattern without the $ assertion accepts every position.
AtLineEndAny(s, i) == TRUE
\* $ under the m flag: at the end of the input or before a line terminator.
AtLineEnd(s, i) == i = Len(s) + 1 \/ s[i] \in LineTerminators

\* .* (greedy): from i, past every character that is not a line terminator.
SkipDots(s, i) ==
    Min({j \in i..(Len(s) + 1) : j = Len(s) + 1 \/ s[j] \in LineTerminators})

Hashes(n) == [k \in 1..n |-> "#"]

\* The replacement strings '<hN class="...">$1</hN>', N = 1, 2, 3.
OpenTag(n) ==
    IF n = 1
    THEN <<"<", "h", "1", " ", "c", "l", "a", "s", "s", "=", "\"", "n", "e",
           "o", "n", "-", "t", "i", "t", "l", "e", "\"", ">">>
    ELSE <<"<", "h", IF n = 2 THEN "2" ELSE "3", " ", "c", "l", "a", "s", "s",
           "=", "\"", "n", "e", "o", "n", "-", "s", "u", "b", "t", "i", "t",
           "l", "e", "\"", ">">>
CloseTag(n) ==
    <<"<", "/", "h", IF n = 1 THEN "1" ELSE IF n = 2 THEN "2" ELSE "3", ">">>
BrTag == <<"<", "b", "r", "/", ">">>

\* Where /^#{n} (.*$)/m matches at i: the position after the match, else 0.
HeadingMatchEnd(s, i, n) ==
    IF /\ AtLineStart(s, i)
       /\ MatchesAt(s, Append(Hashes(n), " "), i)
       /\ AtLineEnd(s, SkipDots(s, i + n + 1))
    THEN SkipDots(s, i + n + 1) ELSE 0

\* s.replace(/^#{n} (.*$)/gim, '<hN ...>$1</hN>') from position i on: the
\* leftmost match at or after i is replaced, the text before it is copied,
\* and the search goes on after the match.
RECURSIVE ReplaceHeadingFrom(_, _, _)
ReplaceHeadingFrom(s, i, n) ==
    LET at == {j \in i..Len(s) : HeadingMatchEnd(s, j, n) # 0}
        j == Min(at)
        e == HeadingMatchEnd(s, j, n)
    IN  IF at = {} THEN SubSeq(s, i, Len(s))
        ELSE SubSeq(s, i, j - 1)
             \o OpenTag(n) \o SubSeq(s, j + n + 1, e - 1) \o CloseTag(n)
             \o ReplaceHeadingFrom(s, e, n)

ReplaceHeading(s, n) == ReplaceHeadingFrom(s, 1, n)

\* Where /\n$/m matches at i.
BreakMatches(s, i) == s[i] = "\n" /\ AtLineEnd(s, i + 1)

\* s.replace(/\n$/gim, '<br/>') from position i on.
RECURSIVE ReplaceBreakFrom(_, _)
ReplaceBreakFrom(s, i) ==
    LET at == {j \in i..Len(s) : BreakMatches(s, j)}
        j == Min(at)
    IN  IF at = {} THEN SubSeq(s, i, Len(s))
        ELSE SubSeq(s, i, j - 1) \o BrTag \o ReplaceBreakFrom(s, j + 1)

ReplaceBreak(s) == ReplaceBreakFrom(s, 1)

\* const renderedMd = computed(() => md.value.replace(...).replace(...)...)
RenderMd(src) ==
    ReplaceBreak(ReplaceHeading(ReplaceHeading(ReplaceHeading(src, 3), 2), 1))

(***************************************************************************)
(* PreviewPage: state and actions.                                         *)
(***************************************************************************)
\* const md = ref('# Título\n\n## Subtítulo\n\nContenido...')
DemoMd ==
    <<"#", " ", "T", "í", "t", "u", "l", "o", "\n", "\n", "#", "#", " ", "S",
      "u", "b", "t", "í", "t", "u", "l", "o", "\n", "\n", "C", "o", "n", "t",
      "e", "n", "i", "d", "o", ".", ".", ".">>

SubMidTop ==
    <<"#", "#", "#", " ", "S", "u", "b", "\n", "#", "#", " ", "M", "i", "d",
      "\n", "#", " ", "T", "o", "p">>

\* The characters of the bounded markdown sources.
MdChars == {"#", " ", "\n", "\r", "a"}
MdSources == SeqsUpTo(MdChars, MaxMdLen) \cup {DemoMd, SubMidTop}

NotComputed == <<"NotComputed">>
NoElement == [kind |-> "null", content |-> <<>>]
EmptyElement == [kind |-> "empty", content |-> <<>>]

\* const code = `classDiagram\nA <|-- B\nA : +foo()\nB : +bar()`
DiagramCode ==
    <<"c", "l", "a", "s", "s", "D", "i", "a", "g", "r", "a", "m", "\n", "A",
      " ", "<", "|", "-", "-", " ", "B", "\n", "A", " ", ":", " ", "+", "f",
      "o", "o", "(", ")", "\n", "B", " ", ":", " ", "+", "b", "a", "r", "(",
      ")">>

\* '<div style="color:#00ff7f">[Gantt here]</div>'
GanttPlaceholder == <<"[Gantt here]">>

\* The markup mermaid.render may resolve to.
SvgMarkup == {<<"<svg>", "1", "</svg>">>, <<"<svg>", "2", "</svg>">>}

Tabs == {"docs", "uml", "gantt"}

\* if (ganttEl.value) { ganttEl.value.innerHTML = '...' }
GanttAfter(el) ==
    IF el # NoElement THEN [kind |-> "html", content |-> GanttPlaceholder] ELSE el

\* v-html="renderedMd": the template reads the computed, which evaluates it.
Render ==
    /\ renderedMd = NotComputed
    /\ renderedMd' = RenderMd(md)
    /\ UNCHANGED <<md, tab, mermaid, umlEl, ganttEl, pc, call, escaped>>
    /\ UNCHANGED runsVars
    /\ UNCHANGED homeVars

\* v-model="tab" of q-tabs.
SetTab(t) ==
    /\ t # tab
    /\ tab' = t
    /\ UNCHANGED <<md, renderedMd, mermaid, umlEl, ganttEl, pc, call, escaped>>
    /\ UNCHANGED runsVars
    /\ UNCHANGED homeVars

\* What mermaid.initialize and mermaid.render did, and the markup returned.
Call(status, svg) == [status |-> status, svg |-> svg]
NotCalled == Call("notCalled", <<>>)

\* The template refs as the mount sets them: an element, or null when the
\* panel of the element is not rendered.
Elements == {NoElement, EmptyElement}

\* What mermaid does when called: initialize throws, render throws, or render
\* returns a promise.
MountOutcomes == {"initThrows", "renderThrows", "pending"}

\* The handler without its try / catch: a throw leaves the handler.
MountMermaidUncaught(outcome, uml, gantt) ==
    /\ pc = "created"
    /\ mermaid = "present" /\ uml # NoElement
    /\ call' = Call(outcome, <<>>)
    /\ umlEl' = uml
    /\ ganttEl' = gantt
    /\ pc' = IF outcome = "pending" THEN "awaiting" ELSE "done"
    /\ escaped' = (outcome # "pending")
    /\ UNCHANGED <<md, renderedMd, tab, mermaid>>
    /\ UNCHANGED runsVars
    /\ UNCHANGED homeVars

\* onMounted, branch if (mermaid && umlEl.value), up to the await or, when
\* initialize or render throws, through catch { /* ignored */ } to the end.
MountMermaid(outcome, uml, gantt) ==
    /\ pc = "created"
    /\ mermaid = "present" /\ uml # NoElement
    /\ call' = Call(outcome, <<>>)
    /\ umlEl' = uml
    /\ IF outcome = "pending"
       THEN pc' = "awaiting" /\ ganttEl' = gantt
       ELSE pc' = "done" /\ ganttEl' = GanttAfter(gantt)
    /\ UNCHANGED <<md, renderedMd, tab, mermaid, escaped>>
    /\ UNCHANGED runsVars
    /\ UNCHANGED homeVars

\* onMounted, branch else if (umlEl.value) and the branch that does nothing.
MountFallback(uml, gantt) ==
    /\ pc = "created"
    /\ ~(mermaid = "present" /\ uml # NoElement)
    /\ umlEl' = IF uml # NoElement
                THEN [kind |-> "text", content |-> DiagramCode]
                ELSE uml
    /\ ganttEl' = GanttAfter(gantt)
    /\ pc' = "done"
    /\ UNCHANGED <<md, renderedMd, tab, mermaid, call, escaped>>
    /\ UNCHANGED runsVars
    /\ UNCHANGED homeVars

\* The promise of mermaid.render resolves: umlEl.value.innerHTML = svg.
RenderResolves(svg) ==
    /\ pc = "awaiting"
    /\ call' = Call("resolved", svg)
    /\ umlEl' = [kind |-> "html", content |-> svg]
    /\ ganttEl' = GanttAfter(ganttEl)
    /\ pc' = "done"
    /\ UNCHANGED <<md, renderedMd, tab, mermaid, escaped>>
    /\ UNCHANGED runsVars
    /\ UNCHANGED homeVars

\* The promise of mermaid.render rejects: catch { /* ignored */ }.
RenderRejects ==
    /\ pc = "awaiting"
    /\ call' = Call("rejected", <<>>)
    /\ ganttEl' = GanttAfter(ganttEl)
    /\ pc' = "done"
    /\ UNCHANGED <<md, renderedMd, tab, mermaid, umlEl, escaped>>
    /\ UNCHANGED runsVars
    /\ UNCHANGED homeVars

(***************************************************************************)
(* Initial states and specifications.                                      *)
(***************************************************************************)
RunsInit(rs) ==
    /\ rows = rs
    /\ filter = <<>>
    /\ filtered = FilteredOf(rs, <<>>)

HomeInit ==
    /\ raw = InitialRaw
    /\ errorMsg = NoError
    /\ parsed = ParsedOf(InitialRaw)

PreviewInit(src, libs) ==
    /\ md = src
    /\ renderedMd = NotComputed
    /\ tab = "docs"
    /\ mermaid \in libs
    /\ umlEl = NoElement
    /\ ganttEl = NoElement
    /\ pc = "created"
    /\ call = NotCalled
    /\ escaped = FALSE

\* window.mermaid: the library is loaded or it is not.
Libraries == {"absent", "present"}

\* The pages as constructed.
Init == RunsInit(FixtureRows) /\ HomeInit /\ PreviewInit(DemoMd, Libraries)

\* RunsPage, over every bounded sequence of rows.
InitRuns ==
    /\ \E rs \in RowSeqs : RunsInit(rs)
    /\ HomeInit
    /\ PreviewInit(DemoMd, {"absent"})
NextRuns == \E q \in Edits(filter, QueryChars, MaxQueryLen) : SetFilter(q)
SpecRuns == InitRuns /\ [][NextRuns]_vars

\* HomePage.
NextHome == \E val \in Edits(raw, RawChars, MaxRawLen) : SetRaw(val)
SpecHome == Init /\ [][NextHome]_vars

\* PreviewPage.
NextPreview ==
    \/ Render
    \/ \E t \in Tabs : SetTab(t)
    \/ \E o \in MountOutcomes, uml \in Elements, gantt \in Elements :
          MountMermaid(o, uml, gantt)
    \/ \E uml \in Elements, gantt \in Elements : MountFallback(uml, gantt)
    \/ \E svg \in SvgMarkup : RenderResolves(svg)
    \/ RenderRejects
SpecPreview == Init /\ [][NextPreview]_vars

\* The renderer, over every bounded markdown source.
InitRender ==
    /\ RunsInit(FixtureRows)
    /\ HomeInit
    /\ \E src \in MdSources : PreviewInit(src, {"absent"})
NextRender == Render
SpecRender == InitRender /\ [][NextRender]_vars

(***************************************************************************)
(* Properties of RunsPage, under SpecRuns.                                 *)
(***************************************************************************)
\* The lower-cased serialized text of each row.
SerializedLower == [r \in Records |-> ToLowerCase(StringifyRow(r))]

\* n occurs in h as a contiguous substring.
IsSubstring(n, h) ==
    \E k \in 0..Len(h) : k + Len(n) <= Len(h) /\ SubSeq(h, k + 1, k + Len(n)) = n

QueryFail == <<"f", "a", "i", "l">>

\* C1: a row of rows is in filtered if and only if its lower-cased serialized
\* text contains the lower-cased query as a contiguous substring; for the
\* rows a1, b2 (and c3) the query "fail" gives exactly the row b2.
C1_Membership ==
    /\ \A i \in DOMAIN rows :
          (rows[i] \in Range(filtered))
             <=> IsSubstring(ToLowerCase(filter), SerializedLower[rows[i]])
    /\ Range(filtered) \subseteq Range(rows)
    /\ (filter = QueryFail /\ rows \in {FixtureRows, <<RowA1, RowB2>>})
          => filtered = <<RowB2>>

C1_Witness ==
    /\ rows = FixtureRows
    /\ filter = QueryFail
    /\ filtered = <<RowB2>>

\* C7: with the empty query, filtered is exactly rows, same rows in the same
\* order, the empty sequence of rows included.
C7_EmptyQuery == (filter = <<>>) => (filtered = rows)

C7_Witness ==
    /\ filter = <<>>
    /\ Len(rows) = 3
    /\ filtered = rows

\* a is a subsequence of b: the elements of a are elements of b at strictly
\* increasing positions.
IsSubsequence(a, b) ==
    \E f \in [DOMAIN a -> DOMAIN b] :
        /\ \A i \in DOMAIN a : a[i] = b[f[i]]
        /\ \A i, j \in DOMAIN a : i < j => f[i] < f[j]

\* C8: filtered is always a subsequence of rows (relative order kept, no row
\* added or duplicated), and no change of the query changes rows or a row.
C8_Frame == [](IsSubsequence(filtered, rows)) /\ [][rows' = rows]_vars

C8_Witness ==
    /\ rows = FixtureRows
    /\ filter = <<"l">>
    /\ filtered = <<RowA1, RowB2>>

\* C9: filtering the filtered rows again with the same query gives the
\* filtered rows.
C9_Idempotent == FilteredOf(filtered, filter) = filtered

C9_Witness ==
    /\ rows = <<RowD4, RowB2, RowD4>>
    /\ filter = <<"l", "a", "I", "f">>
    /\ filtered = <<RowD4, RowD4>>
    /\ FilteredOf(filtered, filter) = filtered

(***************************************************************************)
(* Properties of HomePage, under SpecHome.                                 *)
(***************************************************************************)
\* C5: a parse failure never escapes and turns the validity flag off, and
\* isValid is true exactly when the text of the editor parses as JSON.
C5_ValidIffParses == isValid <=> JSONParse(raw).ok

\* C10: the error message is 'JSON inválido' exactly when isValid is false,
\* and empty exactly when isValid is true.
C10_FlagMessageAgree ==
    /\ (errorMsg = InvalidJson) <=> ~isValid
    /\ (errorMsg = NoError) <=> isValid

(***************************************************************************)
(* Properties of the markdown renderer, under SpecRender.                  *)
(***************************************************************************)
CountChar(s, c) == Cardinality({i \in DOMAIN s : s[i] = c})
CountBr(s) == Cardinality({i \in DOMAIN s : MatchesAt(s, BrTag, i)})
EndsWithNewline(s) == s # <<>> /\ s[Len(s)] = "\n"
Rendered == renderedMd # NotComputed

\* C2 as stated: a newline becomes a line-break tag only when it is the final
\* character of the source; every other newline is left unchanged.
C2_OnlyFinalNewline ==
    Rendered =>
        LET final == IF EndsWithNewline(md) THEN 1 ELSE 0
        IN  /\ CountBr(renderedMd) = final
            /\ CountChar(renderedMd, "\n") + final = CountChar(md, "\n")

\* The newlines of s that are followed by the end of s or by a line terminator.
BreakingNewlines(s) ==
    {i \in DOMAIN s : s[i] = "\n" /\ (i = Len(s) \/ s[i + 1] \in {"\n", "\r"})}

\* C2, amended: a newline becomes a line-break tag exactly when it is the
\* final character of the source or is directly followed by another line
\* terminator; every other newline is left unchanged.
C2_BreakRule ==
    Rendered =>
        /\ CountBr(renderedMd) = Cardinality(BreakingNewlines(md))
        /\ CountChar(renderedMd, "\n") + Cardinality(BreakingNewlines(md))
              = CountChar(md, "\n")

C2_Witness ==
    /\ Rendered
    /\ md = DemoMd
    /\ CountBr(renderedMd) = 2

\* No "#" is the first character of s or follows a line terminator.
NoHashLine(s) ==
    \A i \in DOMAIN s : s[i] = "#" => (i > 1 /\ s[i - 1] \notin {"\n", "\r"})

\* C3 as stated: a source in which no line begins with "#" and which does not
\* end with a newline is rendered unchanged.
C3_PassThrough ==
    (Rendered /\ NoHashLine(md) /\ ~EndsWithNewline(md)) => renderedMd = md

\* C3, amended: a source in which no line begins with "#" and no newline is
\* the final character or directly followed by another line terminator is
\* rendered unchanged.
C3_PassThroughNoBlank ==
    (Rendered /\ NoHashLine(md) /\ BreakingNewlines(md) = {}) => renderedMd = md

C3_Witness ==
    /\ Rendered
    /\ NoHashLine(md)
    /\ BreakingNewlines(md) = {}
    /\ CountChar(md, "\n") = 2
    /\ CountChar(md, "#") = 1
    /\ renderedMd = md

\* The number of "#" at the start of a line.
LeadingHashes(line) ==
    Min({k \in 0..Len(line) : k = Len(line) \/ line[k + 1] # "#"})

\* A line with one, two or three "#" and then a space, in its heading wrapper;
\* any other line as it is.
ClassifyLine(line) ==
    LET k == LeadingHashes(line)
    IN  IF k \in 1..3 /\ k < Len(line) /\ line[k + 1] = " "
        THEN OpenTag(k) \o SubSeq(line, k + 2, Len(line)) \o CloseTag(k)
        ELSE line

\* The lines of s from position i on, each classified, with the line
\* terminators between them.
RECURSIVE ClassifyLinesFrom(_, _)
ClassifyLinesFrom(s, i) ==
    LET e == Min({j \in i..(Len(s) + 1) : j = Len(s) + 1 \/ s[j] \in {"\n", "\r"}})
    IN  IF e = Len(s) + 1 THEN ClassifyLine(SubSeq(s, i, Len(s)))
        ELSE ClassifyLine(SubSeq(s, i, e - 1)) \o <<s[e]>>
             \o ClassifyLinesFrom(s, e + 1)

\* s with every line-break tag put back to the newline it stands for.
RECURSIVE UnBreakFrom(_, _)
UnBreakFrom(s, i) ==
    LET at == {j \in i..Len(s) : MatchesAt(s, BrTag, j)}
    IN  IF at = {} THEN SubSeq(s, i, Len(s))
        ELSE SubSeq(s, i, Min(at) - 1) \o <<"\n">>
             \o UnBreakFrom(s, Min(at) + Len(BrTag))

SubMidTopRendered ==
    OpenTag(3) \o <<"S", "u", "b">> \o CloseTag(3) \o <<"\n">>
    \o OpenTag(2) \o <<"M", "i", "d">> \o CloseTag(2) \o <<"\n">>
    \o OpenTag(1) \o <<"T", "o", "p">> \o CloseTag(1)

\* C4: every line that begins with exactly one, two or three "#" and a space
\* becomes the heading wrapper of that level around the rest of the line, with
\* no "#" of the marker left and no other line changed; "### Sub\n## Mid\n# Top"
\* gives headings of levels 3, 2, 1 with the texts Sub, Mid, Top.
C4_HeadingLevels ==
    Rendered =>
        /\ UnBreakFrom(renderedMd, 1) = ClassifyLinesFrom(md, 1)
        /\ md = SubMidTop => renderedMd = SubMidTopRendered

C4_Witness ==
    /\ Rendered
    /\ md = SubMidTop
    /\ renderedMd = SubMidTopRendered

(***************************************************************************)
(* Properties of the mount handler of PreviewPage, under SpecPreview.      *)
(***************************************************************************)
Failed == call.status \in {"initThrows", "renderThrows", "rejected"}
ShowsSource == umlEl = [kind |-> "text", content |-> DiagramCode]
ShowsMarkup == umlEl = [kind |-> "html", content |-> call.svg]

\* C6 as stated: when the handler has ended and the UML element exists, the
\* element shows the diagram source if the renderer is absent or failed, and
\* the returned markup if it succeeded; no failure leaves the handler.
C6_FallbackToSource ==
    /\ ~escaped
    /\ (pc = "done" /\ umlEl # NoElement) =>
          /\ mermaid = "absent" => ShowsSource
          /\ (mermaid = "present" /\ Failed) => ShowsSource
          /\ (mermaid = "present" /\ call.status = "resolved") => ShowsMarkup

\* C6, amended: as stated, except that after a failure of initialize or render
\* the UML element is left empty.
C6_FailureLeavesEmpty ==
    /\ ~escaped
    /\ (pc = "done" /\ umlEl # NoElement) =>
          /\ mermaid = "absent" => ShowsSource
          /\ (mermaid = "present" /\ Failed) => umlEl = EmptyElement
          /\ (mermaid = "present" /\ call.status = "resolved") => ShowsMarkup

C6_Witness ==
    /\ pc = "done"
    /\ mermaid = "present"
    /\ call.status = "rejected"
    /\ umlEl = EmptyElement
====
